---- MODULE Spec2Model ----
(***************************************************************************)
(* Model of app_f.py, the earthquake dashboard script.  The script is      *)
(* re-executed from top to bottom on every interaction; the only state     *)
(* carried across runs is the session state (barchart_version), the value  *)
(* each keyed widget last reported, and the cached inputs.                 *)
(*                                                                         *)
(* Magnitudes are integers in hundredths (6.2 is 620).  Labels are written *)
(* with an ASCII hyphen.  A missing value (NaN / None) is the string NaN.  *)
(***************************************************************************)
EXTENDS Integers, Sequences, FiniteSets

VARIABLES
    \* ---- pd.cut / region normalisation (lines 113-119, 172-177)
    binInput,            \* <<kind, value>> : the value handed to the step
    binOutput,           \* the value the step produced
    binPc,               \* "pending" before the step, "done" after it
    \* ---- the loaded table (line 23): a sequence of rows
    df,
    \* ---- per-year summary (lines 31-52)
    top_region,          \* lines 31-37
    top_mags,            \* lines 38-44
    per_year_df,         \* lines 46-51
    sumPc,               \* position of the script inside lines 31-51
    \* ---- year selection (lines 86-101)
    barchart_version,    \* st.session_state.barchart_version
    component,           \* key index -> the value the bar chart component
                         \* with that key last reported (NoYear: nothing)
    sessPc,              \* "idle": a run has finished; "rerun": st.rerun()
                         \* was called at line 93 and the new run is due
    clearedSince,        \* "Show all years" was pressed and no bar was
                         \* clicked on the chart shown since
    selected_year,       \* line 100
    df_filtered,         \* line 101
    \* ---- point map with the boundary overlay (lines 111, 135-170)
    show_tectonics,      \* line 111
    fetched,             \* what load_tectonics(url) did at line 153
    featIdx,             \* position of the loop of line 154
    dot_map,             \* the traces of the figure
    map_warning,         \* st.warning of line 168 was called
    map_rendered,        \* the figure handed to st.plotly_chart, line 170
    mapPc,
    \* ---- region dropdown and pie chart (lines 236-291)
    regions,             \* line 236
    region_selected,     \* line 240
    df_pie_filtered,     \* lines 245-248
    pie_warning,         \* st.warning of line 267 was called
    fig_pie,             \* the pie handed to st.plotly_chart, line 291
    piePc

binVars == <<binInput, binOutput, binPc>>
sumVars == <<top_region, top_mags, per_year_df, sumPc>>
sessVars == <<barchart_version, component, sessPc, clearedSince>>
selVars == <<selected_year, df_filtered>>
mapVars ==
    <<show_tectonics, fetched, featIdx, dot_map, map_warning, map_rendered, mapPc>>
pieVars ==
    <<regions, region_selected, df_pie_filtered, pie_warning, fig_pie, piePc>>
vars == <<binVars, df, sumVars, sessVars, selVars, mapVars, pieVars>>

\* A missing region or label (NaN) and a missing magnitude (None, line 40);
\* the latter is below every magnitude, which is at least 500.
NaN == "NaN"
NoMag == -1
\* selected_year is None (line 100): no year is selected
NoYear == 0

\* ------------------------------------------------------------------ bounds
MaxCount == 40
MaxMagH == 780
MaxLen == 4
MaxRows == 4
MaxSessionRows == 2
MaxVersion == 2
MaxFeatures == 3

\* ------------------------------------------------------------ generic helpers
Range(s) == {s[i] : i \in DOMAIN s}

\* ------------------------------------------------------------------ pd.cut
\* A bin edge is <<"fin", n>> or <<"inf", 0>> (float("inf")).
Fin(n) == <<"fin", n>>
Inf == <<"inf", 0>>

\* edge < x and edge <= x for a finite value x
EdgeLt(e, x) == e[1] = "fin" /\ e[2] < x
EdgeLe(e, x) == e[1] = "fin" /\ e[2] <= x

\* numpy searchsorted of x in the ascending edges: the number of edges
\* strictly below x (side "left") or not above x (side "right").
SearchSorted(bins, x, side) ==
    IF side = "left"
    THEN Cardinality({i \in DOMAIN bins : EdgeLt(bins[i], x)})
    ELSE Cardinality({i \in DOMAIN bins : EdgeLe(bins[i], x)})

\* The index pd.cut assigns: 0 stands for "outside every bin" (NaN).
\* right = TRUE gives intervals (lo, hi]; right = FALSE gives [lo, hi).
\* the closed side of the intervals swapped
CutIndexWrongSide(x, bins, right) ==
    LET ids == SearchSorted(bins, x, IF right THEN "right" ELSE "left")
    IN  IF ids = 0 \/ ids = Len(bins) THEN 0 ELSE ids

CutIndex(x, bins, right) ==
    LET ids == SearchSorted(bins, x, IF right THEN "left" ELSE "right")
    IN  IF ids = 0 \/ ids = Len(bins) THEN 0 ELSE ids

Cut(x, bins, labels, right) ==
    LET i == CutIndex(x, bins, right)
    IN  IF i = 0 THEN NaN ELSE labels[i]

mag_bins_dot ==
    << Fin(500), Fin(515), Fin(535), Fin(555), Fin(575), Fin(600), Fin(615),
       Fin(635), Fin(655), Fin(675), Fin(700), Fin(750), Inf >>
mag_labels_dot ==
    << "5.0-5.1", "5.2-5.3", "5.4-5.5", "5.6-5.7", "5.8-5.9", "6.0-6.1",
       "6.2-6.3", "6.4-6.5", "6.6-6.7", "6.8-6.9", "7.0-7.5", "7.5+" >>

count_bins_chor == << Fin(-1), Fin(1), Fin(3), Fin(6), Fin(10), Fin(20), Inf >>
count_labels_chor == << "1", "2-3", "4-6", "7-10", "11-20", "21+" >>

\* ------------------------------------------------- str.title().str.strip()
Lower == {"a", "b"}
Upper == {"A", "B"}
Space == " "
Chars == Lower \cup Upper \cup {Space, "-"}

ToUpper(c) == IF c = "a" THEN "A" ELSE IF c = "b" THEN "B" ELSE c
ToLower(c) == IF c = "A" THEN "a" ELSE IF c = "B" THEN "b" ELSE c

\* str.title(): a cased character is upper-cased when the character before
\* it is not cased, and lower-cased when it is.
RECURSIVE TitleFrom(_, _)
TitleFrom(s, prevCased) ==
    IF s = <<>> THEN <<>>
    ELSE LET c == Head(s)
         IN  IF c \in Lower \cup Upper
             THEN <<IF prevCased THEN ToLower(c) ELSE ToUpper(c)>>
                     \o TitleFrom(Tail(s), TRUE)
             ELSE <<c>> \o TitleFrom(Tail(s), FALSE)

Title(s) == TitleFrom(s, FALSE)

RECURSIVE LStrip(_)
LStrip(s) == IF s # <<>> /\ Head(s) = Space THEN LStrip(Tail(s)) ELSE s

RECURSIVE RStrip(_)
RStrip(s) ==
    IF s # <<>> /\ s[Len(s)] = Space THEN RStrip(SubSeq(s, 1, Len(s) - 1)) ELSE s

\* a strip that removes one blank at each end only
StripOne(s) ==
    LET l == IF s # <<>> /\ Head(s) = Space THEN Tail(s) ELSE s
    IN  IF l # <<>> /\ l[Len(l)] = Space THEN SubSeq(l, 1, Len(l) - 1) ELSE l

Strip(s) == RStrip(LStrip(s))

\* df_regions["region"].str.title().str.strip()
Normalize(s) == Strip(Title(s))

Strings == UNION {[1..n -> Chars] : n \in 0..MaxLen}

\* ------------------------------------------------------- the loaded table
\* A row of earthquakes_merged_f.csv, cut to the columns lines 31-51 read.
\* region is nullable (line 32 drops the rows without one).
Years == {2015, 2016}
Mags == {510, 620}
RegionOrder == <<"Greece", "Italy">>          \* ascending string order
RegionNames == Range(RegionOrder)
Rows == [year : Years, magnitude : Mags, region : RegionNames \cup {NaN}]

Rank(r) == CHOOSE i \in DOMAIN RegionOrder : RegionOrder[i] = r

Front(s) == SubSeq(s, 1, Len(s) - 1)
Last(s) == s[Len(s)]

RECURSIVE Flatten(_)
Flatten(ss) == IF ss = <<>> THEN <<>> ELSE Head(ss) \o Flatten(Tail(ss))

RECURSIVE SortedYears(_)
SortedYears(S) ==
    IF S = {} THEN <<>>
    ELSE LET m == CHOOSE x \in S : \A y \in S : x <= y
         IN  <<m>> \o SortedYears(S \ {m})

RECURSIVE SortedRegions(_)
SortedRegions(S) ==
    IF S = {} THEN <<>>
    ELSE LET m == CHOOSE x \in S : \A y \in S : Rank(x) <= Rank(y)
         IN  <<m>> \o SortedRegions(S \ {m})

HasRegion(r) == r.region # NaN

\* df.dropna(subset = ["region"])
DropNaRegion(t) == SelectSeq(t, HasRegion)

YearsOf(t) == {t[i].year : i \in DOMAIN t}
RowsOfYear(t, y) == {i \in DOMAIN t : t[i].year = y}
CountYearRegion(t, y, r) ==
    Cardinality({i \in DOMAIN t : t[i].year = y /\ t[i].region = r})

\* .groupby(["year", "region"]).size().reset_index(name = "n"): one row per
\* observed (year, region), keys ascending.
GroupYearRegionSize(t) ==
    LET ys == SortedYears(YearsOf(t))
        ofYear(y) ==
            LET rs == SortedRegions({t[i].region : i \in RowsOfYear(t, y)})
            IN  [k \in DOMAIN rs |->
                    [year |-> y, region |-> rs[k],
                     n |-> CountYearRegion(t, y, rs[k])]]
    IN  Flatten([j \in DOMAIN ys |-> ofYear(ys[j])])

\* the order of sort_values(["year", "n"], ascending = [True, False])
BeforeYearN(a, b) == a.year < b.year \/ (a.year = b.year /\ a.n > b.n)

\* x put in front of the first row it is strictly before: a stable insertion
RECURSIVE InsertYearN(_, _)
InsertYearN(s, x) ==
    IF s = <<>> THEN <<x>>
    ELSE IF BeforeYearN(x, Head(s)) THEN <<x>> \o s
    ELSE <<Head(s)>> \o InsertYearN(Tail(s), x)

RECURSIVE SortYearN(_)
SortYearN(s) ==
    IF s = <<>> THEN <<>> ELSE InsertYearN(SortYearN(Front(s)), Last(s))

\* every row kept
KeepDuplicatesYear(s) == s

\* .drop_duplicates("year"): the first row of each year is kept
RECURSIVE DropDuplicatesYear(_)
DropDuplicatesYear(s) ==
    IF s = <<>> THEN <<>>
    ELSE LET f == Front(s)
         IN  IF \E i \in DOMAIN f : f[i].year = Last(s).year
             THEN DropDuplicatesYear(f)
             ELSE Append(DropDuplicatesYear(f), Last(s))

\* lines 31-37
TopRegion(t) ==
    LET d == DropDuplicatesYear(SortYearN(GroupYearRegionSize(DropNaRegion(t))))
    IN  [i \in DOMAIN d |-> [year |-> d[i].year, top_region |-> d[i].region]]

\* the magnitudes of year y in row order
RECURSIVE MagsOfYear(_, _)
MagsOfYear(t, y) ==
    IF t = <<>> THEN <<>>
    ELSE IF Head(t).year = y
         THEN <<Head(t).magnitude>> \o MagsOfYear(Tail(t), y)
         ELSE MagsOfYear(Tail(t), y)

RECURSIVE InsertDesc(_, _)
InsertDesc(s, x) ==
    IF s = <<>> THEN <<x>>
    ELSE IF x > Head(s) THEN <<x>> \o s
    ELSE <<Head(s)>> \o InsertDesc(Tail(s), x)

RECURSIVE SortDesc(_)
SortDesc(s) == IF s = <<>> THEN <<>> ELSE InsertDesc(SortDesc(Front(s)), Last(s))

\* the n smallest values, smallest first
NSmallest(s, n) ==
    LET d == SortDesc(s)
    IN  [i \in 1..(IF Len(d) < n THEN Len(d) ELSE n) |-> d[Len(d) + 1 - i]]

\* Series.nlargest(n): the n largest values, largest first
NLargest(s, n) == SubSeq(SortDesc(s), 1, IF Len(s) < n THEN Len(s) ELSE n)

\* lines 38-44: nlargest(3) + [None, None, None], cut to three, as columns
TopMags(t) ==
    LET ys == SortedYears(YearsOf(t))
        row(y) ==
            LET L == SubSeq(NLargest(MagsOfYear(t, y), 3) \o <<NoMag, NoMag, NoMag>>, 1, 3)
            IN  [year |-> y, m1 |-> L[1], m2 |-> L[2], m3 |-> L[3]]
    IN  [j \in DOMAIN ys |-> row(ys[j])]

\* lines 46-50: df.groupby("year").size().reset_index(name = "amount")
YearSize(t) ==
    LET ys == SortedYears(YearsOf(t))
    IN  [j \in DOMAIN ys |->
            [year |-> ys[j], amount |-> Cardinality(RowsOfYear(t, ys[j]))]]

RECURSIVE InsertYear(_, _)
InsertYear(s, x) ==
    IF s = <<>> THEN <<x>>
    ELSE IF x.year < Head(s).year THEN <<x>> \o s
    ELSE <<Head(s)>> \o InsertYear(Tail(s), x)

\* .sort_values("year")
RECURSIVE SortYear(_)
SortYear(s) == IF s = <<>> THEN <<>> ELSE InsertYear(SortYear(Front(s)), Last(s))

\* left.merge(right, on = "year", how = "left"): every left row, in order,
\* joined with each right row of its year; with none, the right columns
\* (those of the record missing) are NaN.
MergeLeft(left, right, missing) ==
    LET join(l, r) ==
            [f \in DOMAIN l \cup DOMAIN r |-> IF f \in DOMAIN l THEN l[f] ELSE r[f]]
        matches(l) ==
            LET m == SelectSeq(right, LAMBDA r : r.year = l.year)
            IN  IF m = <<>> THEN <<join(l, missing)>>
                ELSE [k \in DOMAIN m |-> join(l, m[k])]
    IN  Flatten([i \in DOMAIN left |-> matches(left[i])])

\* ---------------------------------------------- specification of the steps
BinInputs ==
    {<<"count", c>> : c \in 0..MaxCount}
        \cup {<<"magnitude", m>> : m \in 500..MaxMagH}
        \cup {<<"region", r>> : r \in Strings}

\* line 177: by_region["count_bin"] = pd.cut(count, count_bins_chor, labels)
CutCount ==
    /\ binInput[1] = "count" /\ binPc = "pending"
    /\ binPc' = "done"
    /\ binOutput' = Cut(binInput[2], count_bins_chor, count_labels_chor, TRUE)
    /\ UNCHANGED binInput

\* lines 116-119: pd.cut(magnitude, mag_bins_dot, mag_labels_dot, right=False)
CutMagnitude ==
    /\ binInput[1] = "magnitude" /\ binPc = "pending"
    /\ binPc' = "done"
    /\ binOutput' = Cut(binInput[2], mag_bins_dot, mag_labels_dot, FALSE)
    /\ UNCHANGED binInput

\* line 173
NormalizeRegion ==
    /\ binInput[1] = "region" /\ binPc = "pending"
    /\ binPc' = "done"
    /\ binOutput' = Normalize(binInput[2])
    /\ UNCHANGED binInput

\* ------------------------------------------- lines 31-51, statement by statement
\* The CSV holds at least one row: with none, line 44 raises.
Tables == UNION {[1..n -> Rows] : n \in 1..MaxRows}

ComputeTopRegion ==
    /\ sumPc = "top_region"
    /\ top_region' = TopRegion(df)
    /\ sumPc' = "top_mags"
    /\ UNCHANGED <<top_mags, per_year_df>>

ComputeTopMags ==
    /\ sumPc = "top_mags"
    /\ top_mags' = TopMags(df)
    /\ sumPc' = "per_year_df"
    /\ UNCHANGED <<top_region, per_year_df>>

ComputePerYear ==
    /\ sumPc = "per_year_df"
    /\ per_year_df' = SortYear(YearSize(df))
    /\ sumPc' = "merge"
    /\ UNCHANGED <<top_region, top_mags>>

MergePerYear ==
    /\ sumPc = "merge"
    /\ per_year_df' =
          MergeLeft(MergeLeft(per_year_df, top_region, [top_region |-> NaN]),
                    top_mags, [m1 |-> NoMag, m2 |-> NoMag, m3 |-> NoMag])
    /\ sumPc' = "done"
    /\ UNCHANGED <<top_region, top_mags>>

\* ----------------------------------------------- year selection, lines 86-101
SessionTables == UNION {[1..n -> Rows] : n \in 1..MaxSessionRows}

\* a key that does not follow the version
SelectionKeyFixed(version) == 0

\* line 98: key = f"year_bar_selection_{barchart_version}"
SelectionKey(version) == version

\* line 100: int(selected[0]["x"]) if selected else None
SelectedYear(selected) == selected

\* line 101
FilterYear(t, y) ==
    IF y = NoYear THEN t ELSE SelectSeq(t, LAMBDA r : r.year = y)

\* lines 94-101 of a run in which the button of line 91 is not pressed
RunSelection ==
    LET selected == component'[SelectionKey(barchart_version)]
    IN  /\ selected_year' = SelectedYear(selected)
        /\ df_filtered' = FilterYear(df, SelectedYear(selected))
        /\ sessPc' = "idle"
        /\ UNCHANGED barchart_version

\* A click on the bar of year y of the chart on screen; the script runs.
BarClick(y) ==
    /\ sessPc = "idle"
    /\ y \in YearsOf(df)
    /\ component' = [component EXCEPT ![SelectionKey(barchart_version)] = y]
    /\ clearedSince' = FALSE
    /\ RunSelection

\* A box or lasso selection that holds no bar (select_event, line 97).
BarSelectNone ==
    /\ sessPc = "idle"
    /\ component' = [component EXCEPT ![SelectionKey(barchart_version)] = NoYear]
    /\ UNCHANGED clearedSince
    /\ RunSelection

\* The checkbox of line 111 or the dropdown of line 240 changes; the script
\* runs again and the bar chart component reports what it last reported.
OtherInteraction ==
    /\ sessPc = "idle"
    /\ UNCHANGED <<component, clearedSince>>
    /\ RunSelection

\* lines 91-93: the button is pressed, the run stops at st.rerun()
PressShowAll ==
    /\ sessPc = "idle"
    /\ barchart_version < MaxVersion
    /\ barchart_version' = barchart_version + 1
    /\ sessPc' = "rerun"
    /\ clearedSince' = TRUE
    /\ UNCHANGED <<component, selected_year, df_filtered>>

\* A click on the chart still on screen, made before the new run has
\* replaced it: it is reported under the key that chart was built with.
StaleClick(y) ==
    /\ sessPc = "rerun"
    /\ y \in YearsOf(df)
    /\ component' =
          [component EXCEPT ![SelectionKey(barchart_version - 1)] = y]
    /\ UNCHANGED <<barchart_version, sessPc, clearedSince, selected_year, df_filtered>>

\* The same click, reported only after the new run has finished: the script
\* runs once more.
LateClick(y) ==
    /\ sessPc = "idle"
    /\ barchart_version >= 1
    /\ y \in YearsOf(df)
    /\ component' =
          [component EXCEPT ![SelectionKey(barchart_version - 1)] = y]
    /\ UNCHANGED clearedSince
    /\ RunSelection

\* the run st.rerun() asked for
Rerun ==
    /\ sessPc = "rerun"
    /\ UNCHANGED <<component, clearedSince>>
    /\ RunSelection

\* ------------------------------------- boundary overlay, lines 111, 135-170
FetchFailures == {"timeout", "http_status", "bad_json"}

\* A feature of the payload: its geometry type and what sits under
\* geometry.coordinates: a list of [lon, lat] pairs, a list of numbers,
\* nested lists, or no such member.
Features ==
    { [type |-> "LineString", coordinates |-> "pairs"],
      [type |-> "LineString", coordinates |-> "scalars"],
      [type |-> "MultiLineString", coordinates |-> "nested"],
      [type |-> "Point", coordinates |-> "scalars"],
      [type |-> "GeometryCollection", coordinates |-> "absent"] }

Payloads == UNION {[1..n -> Features] : n \in 0..MaxFeatures}

\* what load_tectonics can do: raise (lines 19-21), or return the document,
\* which may lack its "features" member
FetchResults ==
    {[status |-> e, features |-> <<>>] : e \in FetchFailures \cup {"no_features"}}
        \cup {[status |-> "ok", features |-> p] : p \in Payloads}

\* line 155 raises when the geometry has no coordinates; lines 157-158 raise
\* when a coordinate of a LineString is not a pair
FeatureRaises(f) ==
    \/ f.coordinates = "absent"
    \/ f.type = "LineString" /\ f.coordinates # "pairs"

PointsTrace(t) == [kind |-> "points", n |-> Len(t)]
LineTrace == [kind |-> "lines", n |-> 0]

\* lines 111, 135-150
BuildMap ==
    /\ mapPc = "build"
    /\ dot_map' = <<PointsTrace(df_filtered)>>
    /\ \E b \in BOOLEAN :
          /\ show_tectonics' = b
          /\ mapPc' = IF b THEN "load" ELSE "render"
    /\ UNCHANGED <<fetched, featIdx, map_warning, map_rendered>>

\* lines 152-154, with the except of lines 167-168
LoadTectonics ==
    /\ mapPc = "load"
    /\ \E res \in FetchResults :
          /\ fetched' = res
          /\ IF res.status = "ok"
             THEN /\ mapPc' = "loop"
                  /\ featIdx' = 1
                  /\ UNCHANGED map_warning
             ELSE /\ mapPc' = "render"
                  /\ map_warning' = TRUE
                  /\ UNCHANGED featIdx
    /\ UNCHANGED <<show_tectonics, dot_map, map_rendered>>

\* one pass of the loop body, lines 155-166, with the except of lines 167-168
ProcessFeature ==
    /\ mapPc = "loop"
    /\ featIdx <= Len(fetched.features)
    /\ LET feature == fetched.features[featIdx]
       IN  IF FeatureRaises(feature)
           THEN /\ map_warning' = TRUE
                /\ mapPc' = "render"
                /\ UNCHANGED <<dot_map, featIdx>>
           ELSE /\ dot_map' = IF feature.type = "LineString"
                              THEN Append(dot_map, LineTrace)
                              ELSE dot_map
                /\ featIdx' = featIdx + 1
                /\ UNCHANGED <<map_warning, mapPc>>
    /\ UNCHANGED <<show_tectonics, fetched, map_rendered>>

EndLoop ==
    /\ mapPc = "loop"
    /\ featIdx > Len(fetched.features)
    /\ mapPc' = "render"
    /\ UNCHANGED <<show_tectonics, fetched, featIdx, dot_map, map_warning, map_rendered>>

\* lines 169-170
RenderMap ==
    /\ mapPc = "render"
    /\ map_rendered' = dot_map
    /\ mapPc' = "done"
    /\ UNCHANGED <<show_tectonics, fetched, featIdx, dot_map, map_warning>>

\* ------------------------------------ dropdown and pie chart, lines 236-291
mag_bins_pie ==
    << Fin(500), Fin(515), Fin(535), Fin(555), Fin(575), Fin(600), Fin(615),
       Fin(635), Fin(655), Inf >>
mag_labels_pie ==
    << "5.0-5.1", "5.2-5.3", "5.4-5.5", "5.6-5.7", "5.8-5.9", "6.0-6.1",
       "6.2-6.3", "6.4-6.5", "6.6+" >>

\* Series.dropna().unique(): the regions in order of first appearance
RECURSIVE UniqueRegions(_)
UniqueRegions(t) ==
    IF t = <<>> THEN <<>>
    ELSE LET f == UniqueRegions(Front(t))
             r == Last(t).region
         IN  IF r = NaN \/ r \in Range(f) THEN f ELSE Append(f, r)

\* the options without sorted()
RegionOptionsUnsorted(t) == <<"All">> \o UniqueRegions(t)

\* line 236
RegionOptions(t) == <<"All">> \o SortedRegions(Range(UniqueRegions(t)))

\* the region left out of the filter
PieSubsetAnyRegion(t, r) == t

\* lines 245-248
PieSubset(t, r) ==
    IF r = "All" THEN t ELSE SelectSeq(t, LAMBDA row : row.region = r)

\* lines 253, 269-273: the number of rows of each magnitude cluster
PieCounts(t) ==
    [k \in DOMAIN mag_labels_pie |->
        Cardinality({i \in DOMAIN t :
            Cut(t[i].magnitude, mag_bins_pie, mag_labels_pie, FALSE)
                = mag_labels_pie[k]})]

NoFigure == <<>>

\* lines 100-101, for any value the bar chart component may report
PieFilter ==
    /\ piePc = "filter"
    /\ \E selected \in Years \cup {NoYear} :
          /\ selected_year' = SelectedYear(selected)
          /\ df_filtered' = FilterYear(df, SelectedYear(selected))
    /\ piePc' = "dropdown"
    /\ UNCHANGED <<regions, region_selected, df_pie_filtered, pie_warning, fig_pie>>

\* lines 236-243, for any value the dropdown may report
PieDropdown ==
    /\ piePc = "dropdown"
    /\ regions' = RegionOptions(df_filtered)
    /\ \E r \in {"All"} \cup RegionNames : region_selected' = r
    /\ piePc' = "pie"
    /\ UNCHANGED <<selected_year, df_filtered, df_pie_filtered, pie_warning, fig_pie>>

\* lines 245-291
PieChart ==
    /\ piePc = "pie"
    /\ LET sub == PieSubset(df_filtered, region_selected)
       IN  /\ df_pie_filtered' = sub
           /\ IF sub = <<>>
              THEN pie_warning' = TRUE /\ fig_pie' = NoFigure
              ELSE pie_warning' = FALSE /\ fig_pie' = PieCounts(sub)
    /\ piePc' = "done"
    /\ UNCHANGED <<selected_year, df_filtered, regions, region_selected>>

\* ------------------------------------------------------------ specifications
BinsOff == binInput = <<"none", 0>> /\ binOutput = NaN /\ binPc = "off"
SumOff ==
    /\ top_region = <<>> /\ top_mags = <<>> /\ per_year_df = <<>>
    /\ sumPc = "off"
SessOff ==
    /\ barchart_version = 0 /\ component = <<>> /\ sessPc = "off"
    /\ clearedSince = FALSE
MapOff ==
    /\ show_tectonics = FALSE /\ fetched = [status |-> "none", features |-> <<>>]
    /\ featIdx = 0 /\ dot_map = <<>> /\ map_warning = FALSE
    /\ map_rendered = <<>> /\ mapPc = "off"
PieOff ==
    /\ regions = <<>> /\ region_selected = "All" /\ df_pie_filtered = <<>>
    /\ pie_warning = FALSE /\ fig_pie = NoFigure /\ piePc = "off"

\* The session: the first run has shown every year.
Init ==
    /\ df \in SessionTables
    /\ barchart_version = 0
    /\ component = [k \in 0..MaxVersion |-> NoYear]
    /\ sessPc = "idle"
    /\ clearedSince = FALSE
    /\ selected_year = NoYear
    /\ df_filtered = df
    /\ BinsOff /\ SumOff /\ MapOff /\ PieOff
Next ==
    \/ \E y \in Years : BarClick(y) /\ UNCHANGED <<binVars, df, sumVars, mapVars, pieVars>>
    \/ BarSelectNone /\ UNCHANGED <<binVars, df, sumVars, mapVars, pieVars>>
    \/ OtherInteraction /\ UNCHANGED <<binVars, df, sumVars, mapVars, pieVars>>
    \/ PressShowAll /\ UNCHANGED <<binVars, df, sumVars, mapVars, pieVars>>
    \/ \E y \in Years : StaleClick(y) /\ UNCHANGED <<binVars, df, sumVars, mapVars, pieVars>>
    \/ \E y \in Years : LateClick(y) /\ UNCHANGED <<binVars, df, sumVars, mapVars, pieVars>>
    \/ Rerun /\ UNCHANGED <<binVars, df, sumVars, mapVars, pieVars>>
Spec == Init /\ [][Next]_vars

\* pd.cut and the region normalisation, each on one input
InitBins ==
    /\ binInput \in BinInputs /\ binOutput = NaN /\ binPc = "pending"
    /\ df = <<>> /\ selected_year = NoYear /\ df_filtered = <<>>
    /\ SumOff /\ SessOff /\ MapOff /\ PieOff
NextBins ==
    \/ CutCount /\ UNCHANGED <<df, sumVars, sessVars, selVars, mapVars, pieVars>>
    \/ CutMagnitude /\ UNCHANGED <<df, sumVars, sessVars, selVars, mapVars, pieVars>>
    \/ NormalizeRegion /\ UNCHANGED <<df, sumVars, sessVars, selVars, mapVars, pieVars>>
SpecBins == InitBins /\ [][NextBins]_vars

\* lines 31-51 on one table
InitSummary ==
    /\ df \in Tables /\ sumPc = "top_region"
    /\ top_region = <<>> /\ top_mags = <<>> /\ per_year_df = <<>>
    /\ selected_year = NoYear /\ df_filtered = <<>>
    /\ BinsOff /\ SessOff /\ MapOff /\ PieOff
NextSummary ==
    \/ ComputeTopRegion /\ UNCHANGED <<binVars, df, sessVars, selVars, mapVars, pieVars>>
    \/ ComputeTopMags /\ UNCHANGED <<binVars, df, sessVars, selVars, mapVars, pieVars>>
    \/ ComputePerYear /\ UNCHANGED <<binVars, df, sessVars, selVars, mapVars, pieVars>>
    \/ MergePerYear /\ UNCHANGED <<binVars, df, sessVars, selVars, mapVars, pieVars>>
SpecSummary == InitSummary /\ [][NextSummary]_vars

\* lines 111, 135-170 of one run, on one filtered table
InitMap ==
    /\ df \in SessionTables /\ selected_year = NoYear /\ df_filtered = df
    /\ show_tectonics = FALSE /\ fetched = [status |-> "none", features |-> <<>>]
    /\ featIdx = 0 /\ dot_map = <<>> /\ map_warning = FALSE
    /\ map_rendered = <<>> /\ mapPc = "build"
    /\ BinsOff /\ SumOff /\ SessOff /\ PieOff
NextMap ==
    \/ BuildMap /\ UNCHANGED <<binVars, df, sumVars, sessVars, selVars, pieVars>>
    \/ LoadTectonics /\ UNCHANGED <<binVars, df, sumVars, sessVars, selVars, pieVars>>
    \/ ProcessFeature /\ UNCHANGED <<binVars, df, sumVars, sessVars, selVars, pieVars>>
    \/ EndLoop /\ UNCHANGED <<binVars, df, sumVars, sessVars, selVars, pieVars>>
    \/ RenderMap /\ UNCHANGED <<binVars, df, sumVars, sessVars, selVars, pieVars>>
SpecMap == InitMap /\ [][NextMap]_vars

\* lines 100-101 and 236-291 of one run, for every value the two widgets
\* may hand to the script
InitPie ==
    /\ df \in SessionTables /\ selected_year = NoYear /\ df_filtered = <<>>
    /\ regions = <<>> /\ region_selected = "All" /\ df_pie_filtered = <<>>
    /\ pie_warning = FALSE /\ fig_pie = NoFigure /\ piePc = "filter"
    /\ BinsOff /\ SumOff /\ SessOff /\ MapOff
NextPie ==
    \/ PieFilter /\ UNCHANGED <<binVars, df, sumVars, sessVars, mapVars>>
    \/ PieDropdown /\ UNCHANGED <<binVars, df, sumVars, sessVars, mapVars>>
    \/ PieChart /\ UNCHANGED <<binVars, df, sumVars, sessVars, mapVars>>
SpecPie == InitPie /\ [][NextPie]_vars

\* ======================================================================
\* Properties
\* ======================================================================
Min(a, b) == IF a < b THEN a ELSE b
Max(a, b) == IF a > b THEN a ELSE b

\* ---------------------------------------------------------- per-year summary
SummaryRows(y) == {i \in DOMAIN per_year_df : per_year_df[i].year = y}
CountMag(y, v) ==
    Cardinality({i \in RowsOfYear(df, y) : df[i].magnitude = v})
CountMagAbove(y, v) ==
    Cardinality({i \in RowsOfYear(df, y) : df[i].magnitude > v})

AmountOK(r, y) == r.amount = Cardinality(RowsOfYear(df, y))

\* top_region is a region of year y that no region of year y outnumbers
TopRegionMaximal(r, y) ==
    /\ r.top_region \in RegionNames
    /\ CountYearRegion(df, y, r.top_region) >= 1
    /\ \A g \in RegionNames :
          CountYearRegion(df, y, g) <= CountYearRegion(df, y, r.top_region)

YearHasRegion(y) == \E i \in RowsOfYear(df, y) : df[i].region # NaN

\* m1, m2, m3 are the three largest magnitudes of year y, largest first, the
\* trailing ones missing when the year has fewer than three rows
TopMagsOK(r, y) ==
    LET n == Cardinality(RowsOfYear(df, y))
        k == Min(3, n)
        ms == <<r.m1, r.m2, r.m3>>
    IN  /\ \A i \in 1..3 : (i <= k) <=> (ms[i] # NoMag)
        /\ \A i \in 1..(k - 1) : ms[i] >= ms[i + 1]
        /\ \A v \in Mags :
              Cardinality({i \in 1..k : ms[i] = v})
                  = Min(CountMag(y, v), Max(0, k - CountMagAbove(y, v)))

\* C4 as stated: for every table and every year in it, the summary row of the
\* year has amount = the number of rows of the year, top_region = a region
\* whose row count in the year is maximal, and m1, m2, m3 = the three largest
\* magnitudes of the year in non-increasing order, padded with missing values.
C4_AsStated ==
    sumPc = "done" =>
        \A y \in YearsOf(df) : \E i \in SummaryRows(y) :
            /\ AmountOK(per_year_df[i], y)
            /\ TopRegionMaximal(per_year_df[i], y)
            /\ TopMagsOK(per_year_df[i], y)

\* C4 amended: as C4, with top_region missing when no row of the year has a
\* region (rows without a region are not counted towards any region).
C4_PerYearSummary ==
    sumPc = "done" =>
        \A y \in YearsOf(df) : \E i \in SummaryRows(y) :
            /\ AmountOK(per_year_df[i], y)
            /\ IF YearHasRegion(y)
               THEN TopRegionMaximal(per_year_df[i], y)
               ELSE per_year_df[i].top_region = NaN
            /\ TopMagsOK(per_year_df[i], y)

\* the table of the specification's scenario, and a year without any region
C4_Witness ==
    /\ sumPc = "done"
    /\ df = << [year |-> 2015, magnitude |-> 620, region |-> "Greece"],
               [year |-> 2015, magnitude |-> 620, region |-> "Greece"],
               [year |-> 2015, magnitude |-> 620, region |-> "Greece"],
               [year |-> 2016, magnitude |-> 510, region |-> "Italy"] >>
    /\ per_year_df =
          << [year |-> 2015, amount |-> 3, top_region |-> "Greece",
              m1 |-> 620, m2 |-> 620, m3 |-> 620],
             [year |-> 2016, amount |-> 1, top_region |-> "Italy",
              m1 |-> 510, m2 |-> NoMag, m3 |-> NoMag] >>

\* C5: the merged per-year summary has exactly one row per distinct year of
\* the table, in strictly ascending order of year.
C5_OneRowPerYearAscending ==
    sumPc = "done" =>
        /\ \A y \in YearsOf(df) : Cardinality(SummaryRows(y)) = 1
        /\ {per_year_df[i].year : i \in DOMAIN per_year_df} = YearsOf(df)
        /\ \A i \in 1..(Len(per_year_df) - 1) :
              per_year_df[i].year < per_year_df[i + 1].year

\* two years, the later one first in the file, one of them with two regions
C5_Witness ==
    /\ sumPc = "done"
    /\ Len(per_year_df) = 2
    /\ df[1].year = 2016
    /\ \E i, j \in RowsOfYear(df, 2015) :
          /\ df[i].region # NaN /\ df[j].region # NaN
          /\ df[i].region # df[j].region

\* ------------------------------------------------------------------ buckets
\* the bins of `bins` that hold x when the intervals are (lo, hi]
BinsHoldingRightClosed(x, bins) ==
    {i \in 1..(Len(bins) - 1) : EdgeLt(bins[i], x) /\ ~EdgeLt(bins[i + 1], x)}

\* the bins of `bins` that hold x when the intervals are [lo, hi)
BinsHoldingRightOpen(x, bins) ==
    {i \in 1..(Len(bins) - 1) : EdgeLe(bins[i], x) /\ ~EdgeLe(bins[i + 1], x)}

\* C6: every count c >= 0 gets exactly one of the six labels, the one whose
\* integer range holds c (0..1, 2..3, 4..6, 7..10, 11..20, 21 and above), and
\* the six bins partition the non-negative integers.
C6_CountBucket ==
    (binPc = "done" /\ binInput[1] = "count") =>
        LET c == binInput[2]
        IN  /\ binOutput = (IF c <= 1 THEN "1"
                            ELSE IF c <= 3 THEN "2-3"
                            ELSE IF c <= 6 THEN "4-6"
                            ELSE IF c <= 10 THEN "7-10"
                            ELSE IF c <= 20 THEN "11-20"
                            ELSE "21+")
            /\ Cardinality({i \in DOMAIN count_labels_chor :
                               count_labels_chor[i] = binOutput}) = 1
            /\ Cardinality(BinsHoldingRightClosed(c, count_bins_chor)) = 1

C6_Witness ==
    /\ binPc = "done" /\ binInput = <<"count", 21>> /\ binOutput = "21+"

\* C7: every magnitude m >= 5.0 gets exactly one of the 12 map labels, the
\* bucket index does not decrease with m, and a magnitude equal to a bin
\* boundary gets the upper of the two adjacent buckets.
LabelIndexDot(l) == CHOOSE j \in DOMAIN mag_labels_dot : mag_labels_dot[j] = l

C7_MagnitudeBucket ==
    (binPc = "done" /\ binInput[1] = "magnitude") =>
        LET m == binInput[2]
        IN  /\ Cardinality({j \in DOMAIN mag_labels_dot :
                               mag_labels_dot[j] = binOutput}) = 1
            /\ BinsHoldingRightOpen(m, mag_bins_dot) = {LabelIndexDot(binOutput)}
            /\ \A m2 \in 500..m :
                  LET l2 == Cut(m2, mag_bins_dot, mag_labels_dot, FALSE)
                  IN  /\ l2 # NaN
                      /\ LabelIndexDot(l2) <= LabelIndexDot(binOutput)
            /\ \A j \in DOMAIN mag_labels_dot :
                  mag_bins_dot[j] = Fin(m) => binOutput = mag_labels_dot[j]

C7_Witness ==
    /\ binPc = "done" /\ binInput = <<"magnitude", 515>>
    /\ binOutput = "5.2-5.3"

C1_ShowAllRestores ==
    (sessPc = "idle" /\ clearedSince) =>
        /\ selected_year = NoYear
        /\ df_filtered = df

\* year 2015 was selected on the previous chart, it did filter rows out, and
\* the run after the reset has finished
C1_Witness ==
    /\ sessPc = "idle" /\ clearedSince
    /\ barchart_version >= 1
    /\ component[barchart_version - 1] = 2015
    /\ FilterYear(df, 2015) # df
    /\ df_filtered = df

\* ------------------------------------------------------------ boundary overlay
TectonicsFailed ==
    \/ fetched.status \in FetchFailures \cup {"no_features"}
    \/ /\ fetched.status = "ok"
       /\ \E i \in DOMAIN fetched.features : FeatureRaises(fetched.features[i])

LineTraces(fig) == {i \in DOMAIN fig : fig[i].kind = "lines"}
LineStrings(fs) == {i \in DOMAIN fs : fs[i].type = "LineString"}

\* C2: with the overlay enabled, when fetching or processing the boundary
\* data fails, a warning is produced, the map is rendered with the earthquake
\* points, and the rendered map holds no overlay trace at all.
C2_FailureOmitsOverlay ==
    (mapPc = "done" /\ show_tectonics /\ TectonicsFailed) =>
        /\ map_warning
        /\ map_rendered # <<>>
        /\ map_rendered[1] = PointsTrace(df_filtered)
        /\ LineTraces(map_rendered) = {}

\* C8: a feature whose geometry type is not LineString is skipped silently:
\* no trace, no error, no warning, and every LineString feature of the same
\* payload is drawn as one overlay trace.
C8_NonLineStringSkipped ==
    ( /\ mapPc = "done" /\ show_tectonics /\ fetched.status = "ok"
      /\ \E i \in DOMAIN fetched.features : fetched.features[i].type # "LineString"
      /\ \A i \in LineStrings(fetched.features) :
            fetched.features[i].coordinates = "pairs" ) =>
        /\ ~map_warning
        /\ Cardinality(LineTraces(map_rendered))
              = Cardinality(LineStrings(fetched.features))

\* -------------------------------------------------------- dropdown, pie chart
RECURSIVE SumSeq(_)
SumSeq(q) == IF q = <<>> THEN 0 ELSE Head(q) + SumSeq(Tail(q))

\* the rows of the table that the selected year and region leave
PieRows ==
    {i \in DOMAIN df :
        /\ selected_year = NoYear \/ df[i].year = selected_year
        /\ region_selected = "All" \/ df[i].region = region_selected}

\* C3: for every selected year and region, when no row feeds the pie chart
\* the run warns "no data" and renders no pie; otherwise it renders the pie
\* and does not warn.
C3_PieNoData ==
    piePc = "done" =>
        IF PieRows = {}
        THEN pie_warning /\ fig_pie = NoFigure
        ELSE /\ ~pie_warning
             /\ fig_pie # NoFigure
             /\ SumSeq(fig_pie) = Cardinality(PieRows)

\* a year and a region of the table are selected, and the region has no row
\* in that year
C3_Witness ==
    /\ piePc = "done" /\ pie_warning /\ fig_pie = NoFigure
    /\ selected_year # NoYear /\ region_selected # "All"
    /\ df_filtered # <<>>
    /\ \E i \in DOMAIN df : df[i].region = region_selected

FilteredRegions == {df_filtered[i].region : i \in DOMAIN df_filtered} \ {NaN}

\* C10: the dropdown offers "All" and then exactly the distinct regions of the
\* filtered subset, ascending; an offered region always has at least one row,
\* so the "no data" warning needs an empty filtered subset or a region that
\* was not offered.
C10_DropdownOptions ==
    piePc \in {"pie", "done"} =>
        /\ regions[1] = "All"
        /\ {regions[k] : k \in 2..Len(regions)} = FilteredRegions
        /\ Len(regions) = 1 + Cardinality(FilteredRegions)
        /\ \A k \in 2..(Len(regions) - 1) : Rank(regions[k]) < Rank(regions[k + 1])
        /\ piePc = "done" =>
              /\ (region_selected \in Range(regions) /\ region_selected # "All")
                    => df_pie_filtered # <<>>
              /\ pie_warning =>
                    (df_filtered = <<>> \/ region_selected \notin Range(regions))

\* a year is selected, two regions are offered, the later one is chosen
C10_Witness ==
    /\ piePc = "done"
    /\ selected_year # NoYear
    /\ Len(regions) = 3
    /\ region_selected = regions[3]
    /\ ~pie_warning /\ df_pie_filtered # <<>>

====
